---- MODULE Spec2Model ----
(***************************************************************************)
(* State-machine model of backend/server.py (PomodoroTrack API).           *)
(*                                                                         *)
(* The five MongoDB collections are the state.  Every request is a small   *)
(* process in a slot of reqs: FastAPI resolves the get_current_user        *)
(* dependency (one store read), then the handler runs; every awaited store *)
(* operation is one atomic step, and the synchronous code around it        *)
(* belongs to the same step.  When the handler returns or raises, the slot *)
(* holds the response (pc = "done") until the next request takes the slot. *)
(* Requests of different slots interleave freely between steps.  A        *)
(* request's inputs are drawn at the step that first uses them.            *)
(*                                                                         *)
(* Encoding of Python values:                                              *)
(*   None            -> None (-1)       ""  -> EmptyStr (0)                *)
(*   uuid4 strings   -> 1, 2, 3, ... drawn from a per-collection counter   *)
(*   sha256 digests  -> the tuple of the digested parts (injective)        *)
(*   a user's token  -> <<uid, timestamp>>, None -> NoToken (<<>>)         *)
(*   ISO timestamps  -> the UTC day number (day 0 is a Monday); the token  *)
(*                      digest keeps the sub-day part, a counter that      *)
(*                      advances with every read                           *)
(* Fields that no handler reads back (displayName, subscriptionStatus,     *)
(* firebaseUid, company name) are left out of the documents.               *)
(* writes is a history variable: the store operations of each request.     *)
(***************************************************************************)
EXTENDS Integers, Sequences, FiniteSets, TLC

VARIABLES users, companies, projects, activities, timeRecords,
          reqs, clock, today, uuids, writes

vars == <<users, companies, projects, activities, timeRecords,
          reqs, clock, today, uuids, writes>>

store == <<users, companies, projects, activities, timeRecords>>

resources == <<projects, activities, timeRecords>>

----------------------------------------------------------------------------
(* Bounds of the model *)

MaxUsers == 2
MaxCompanies == 2
MaxLogins == 1
MaxDocuments == 2
MaxDay == 9
WeekDocuments == 3
TodayDocuments == 104
ManyProjects == 101

----------------------------------------------------------------------------
(* Python values and request inputs *)

None == -1
EmptyStr == 0
NoToken == <<>>
NoEmail == ""

Truthy(v) == v # None /\ v # EmptyStr

Emails == {"a@x.com", "b@x.com"}
RegisterPasswords == {"pw"}
LoginPasswords == {"pw", "bad"}
CompanyNames == {None, EmptyStr, 1}
ClientUids == {None, 101}
ProjectNames == {1}
NewNames == {None, 2}
DurationInputs == {25}
PomodoroInputs == {1}
DurationUpdates == {None, 50}
PomodoroUpdates == {None, 3}
Notes == {None, EmptyStr, 7}

(* request slots: the sequential specifications use slot 1 only *)
Slots == {1, 2}

NoCred == [kind |-> "none"]

Idle == [pc |-> "idle", op |-> "", status |-> 0, who |-> 0, uid |-> None,
         companyId |-> None, cred |-> NoCred, d |-> <<>>, docs |-> {},
         looked |-> FALSE]

Free(i) == reqs[i].pc \in {"idle", "done"}

sha256hex(s) == <<"sha256", s>>

(* generate_token: sha256 of "<uid>-<now>"; the digest is injective in *)
(* its two parts.                                                      *)
generate_token(uid, now) == <<uid, now>>

----------------------------------------------------------------------------
(* Store primitives.  users is kept in insertion order: find_one and    *)
(* update_one act on the first match.  The other collections are sets   *)
(* of documents; their ids are unique, so a filter on the id matches at *)
(* most one document.                                                   *)

Min(S) == CHOOSE x \in S : \A y \in S : x <= y

(* the first of the matching documents (0: no match) *)
First(matches) == IF matches = {} THEN 0 ELSE Min(matches)

ByToken(tok) == First({k \in 1..Len(users) : users[k].token = tok})

ByEmail(e) == First({k \in 1..Len(users) : users[k].email = e})

(* mutant: login matches the e-mail and ignores the password hash *)
ByCredentials_EmailOnly(e, h) == First({k \in 1..Len(users) : users[k].email = e})

ByCredentials(e, h) ==
    First({k \in 1..Len(users) : users[k].email = e /\ users[k].password = h})

ByUid(uid) == First({k \in 1..Len(users) : users[k].uid = uid})

(* {"$set": patch} applied to a document *)
Set(doc, patch) ==
    [f \in DOMAIN doc |-> IF f \in DOMAIN patch THEN patch[f] ELSE doc[f]]

(* db.users.update_one({"uid": uid}, {"$set": patch}) *)
UpdateByUid(uid, patch) ==
    IF ByUid(uid) = 0 THEN users
    ELSE [users EXCEPT ![ByUid(uid)] = Set(@, patch)]

(* verify_firebase_token asks Google's tokeninfo endpoint: a Google ID   *)
(* token yields its claims (here the e-mail), any other string yields    *)
(* no claims (NoEmail).                                                  *)
verify_firebase_token(cred) ==
    IF cred.kind = "idtoken" THEN cred.email ELSE NoEmail

ResolveByStoredToken(cred) ==
    IF cred.kind = "session" THEN ByToken(cred.tok) ELSE 0

(* the body of get_current_user: index of the resolved user, 0 for 401 *)
ResolveUser(cred) ==
    IF cred.kind = "none" THEN 0
    ELSE IF ResolveByStoredToken(cred) # 0 THEN ResolveByStoredToken(cred)
    ELSE IF verify_firebase_token(cred) # NoEmail
         THEN ByEmail(verify_firebase_token(cred))
    ELSE 0

(* Credentials a client can present: no header, a digest the server    *)
(* has issued (or a forged one of the same shape), a Google ID token   *)
(* for an e-mail.                                                      *)
Uids == (1..MaxUsers) \cup (ClientUids \ {None})

SessionCredentials ==
    {[kind |-> "session", tok |-> generate_token(u, t)] :
         u \in Uids, t \in 0..(clock - 1)}

IdTokenCredentials == {[kind |-> "idtoken", email |-> e] : e \in Emails}

Credentials == {NoCred} \cup SessionCredentials \cup IdTokenCredentials

----------------------------------------------------------------------------
(* Slots *)

Done(r, op, status, d, docs, looked) ==
    [pc |-> "done", op |-> op, status |-> status, who |-> r.who,
     uid |-> r.uid, companyId |-> r.companyId, cred |-> NoCred,
     d |-> d, docs |-> docs, looked |-> looked]

Respond(i, op, status, d, docs, looked) ==
    reqs' = [reqs EXCEPT ![i] = Done(reqs[i], op, status, d, docs, looked)]

Goto(i, op, pc, d) ==
    reqs' = [reqs EXCEPT ![i].op = op, ![i].pc = pc, ![i].d = d]

(* writes[i]: the store operations (insert_one, update_one, delete_one) *)
(* the request in slot i has performed; n is what this step adds       *)
Wrote(i, n) ==
    writes' = [writes EXCEPT ![i] = (IF Free(i) THEN 0 ELSE @) + n]

At(i, op, pc) == reqs[i].op = op /\ reqs[i].pc = pc

Authenticated(i) == reqs[i].pc = "authenticated"

InFlight(op) == Cardinality({i \in Slots : reqs[i].op = op /\ reqs[i].pc # "done"})

----------------------------------------------------------------------------
Init ==
    /\ users = <<>>
    /\ companies = {}
    /\ projects = {}
    /\ activities = {}
    /\ timeRecords = {}
    /\ reqs = [i \in Slots |-> Idle]
    /\ clock = 0
    /\ today = 0
    /\ uuids = [user |-> 1, company |-> 1, project |-> 1, activity |-> 1,
                record |-> 1, logins |-> 0]
    /\ writes = [i \in Slots |-> 0]

----------------------------------------------------------------------------
(* POST /auth/register *)

(* mutant: register skips the existence check *)
EmailTaken_Never(email) == FALSE

(* existing = find_one({"email": data.email}); if existing: ... *)
EmailTaken(email) == ByEmail(email) # 0

register_find(i, email, password, companyName, firebaseUid) ==
    /\ Free(i)
    /\ Len(users) + InFlight("register") < MaxUsers
    /\ Truthy(companyName) => uuids.company <= MaxCompanies
    /\ LET args == [email |-> email, companyName |-> companyName]
       IN  IF EmailTaken(email)
           THEN /\ reqs' = [reqs EXCEPT ![i] =
                               Done(Idle, "register", 400, args, {}, FALSE)]
                /\ UNCHANGED <<clock, uuids>>
           ELSE LET uid == IF Truthy(firebaseUid) THEN firebaseUid ELSE uuids.user
                    companyId == IF Truthy(companyName) THEN uuids.company ELSE None
                IN  /\ reqs' = [reqs EXCEPT ![i] =
                          [Idle EXCEPT
                              !.op = "register",
                              !.pc = IF Truthy(companyName)
                                     THEN "insert_company" ELSE "insert_user",
                              !.d = [email |-> email,
                                     password |-> password,
                                     companyName |-> companyName,
                                     uid |-> uid,
                                     token |-> generate_token(uid, clock),
                                     companyId |-> companyId,
                                     role |-> "user"]]]
                    /\ clock' = clock + 1
                    /\ uuids' = [uuids EXCEPT
                          !.user = IF Truthy(firebaseUid) THEN @ ELSE @ + 1,
                          !.company = IF Truthy(companyName) THEN @ + 1 ELSE @]
    /\ UNCHANGED <<store, today>>
    /\ Wrote(i, 0)

(* mutant: the company is inserted but the role stays "user" *)
register_insert_company_KeepsRole(i) ==
    /\ At(i, "register", "insert_company")
    /\ companies' = companies \cup
          {[companyId |-> reqs[i].d.companyId, ownerId |-> reqs[i].d.uid]}
    /\ Goto(i, "register", "insert_user", reqs[i].d)
    /\ UNCHANGED <<users, resources, clock, today, uuids>>
    /\ Wrote(i, 1)

register_insert_company(i) ==
    /\ At(i, "register", "insert_company")
    /\ companies' = companies \cup
          {[companyId |-> reqs[i].d.companyId, ownerId |-> reqs[i].d.uid]}
    /\ Goto(i, "register", "insert_user", [reqs[i].d EXCEPT !.role = "owner"])
    /\ UNCHANGED <<users, resources, clock, today, uuids>>
    /\ Wrote(i, 1)

register_insert_user(i) ==
    /\ At(i, "register", "insert_user")
    /\ LET d == reqs[i].d
       IN  /\ users' = Append(users,
                  [uid |-> d.uid, email |-> d.email,
                   password |-> sha256hex(d.password),
                   companyId |-> d.companyId, role |-> d.role,
                   token |-> d.token])
           /\ reqs' = [reqs EXCEPT ![i] =
                  Done([Idle EXCEPT !.who = Len(users) + 1, !.uid = d.uid,
                                    !.companyId = d.companyId],
                       "register", 200,
                       [email |-> d.email, companyName |-> d.companyName,
                        role |-> d.role, token |-> d.token],
                       {}, FALSE)]
    /\ UNCHANGED <<companies, resources, clock, today, uuids>>
    /\ Wrote(i, 1)

----------------------------------------------------------------------------
(* POST /auth/login *)

login_find(i, email, password) ==
    /\ Free(i)
    /\ LET k == ByCredentials(email, sha256hex(password))
       IN  IF k = 0
           THEN /\ reqs' = [reqs EXCEPT ![i] =
                      Done(Idle, "login", 401,
                           [email |-> email, password |-> password], {}, FALSE)]
                /\ UNCHANGED <<clock, uuids>>
           ELSE /\ uuids.logins < MaxLogins
                /\ reqs' = [reqs EXCEPT ![i] =
                      [Idle EXCEPT !.op = "login", !.pc = "update", !.who = k,
                                   !.uid = users[k].uid,
                                   !.companyId = users[k].companyId,
                                   !.d = [email |-> email,
                                          password |-> password,
                                          token |-> generate_token(users[k].uid, clock)]]]
                /\ clock' = clock + 1
                /\ uuids' = [uuids EXCEPT !.logins = @ + 1]
    /\ UNCHANGED <<store, today>>
    /\ Wrote(i, 0)

login_update(i) ==
    /\ At(i, "login", "update")
    /\ users' = UpdateByUid(reqs[i].uid, [token |-> reqs[i].d.token])
    /\ Respond(i, "login", 200, reqs[i].d, {}, FALSE)
    /\ UNCHANGED <<companies, resources, clock, today, uuids>>
    /\ Wrote(i, 1)

----------------------------------------------------------------------------
(* Depends(get_current_user) of every authenticated route *)

get_current_user(i, cred) ==
    /\ Free(i)
    /\ LET k == ResolveUser(cred)
       IN  IF k = 0
           THEN reqs' = [reqs EXCEPT ![i] =
                    Done(Idle, "get_current_user", 401, <<>>, {}, FALSE)]
           ELSE reqs' = [reqs EXCEPT ![i] =
                    [Idle EXCEPT !.pc = "authenticated", !.who = k,
                                 !.uid = users[k].uid,
                                 !.companyId = users[k].companyId,
                                 !.cred = cred]]
    /\ UNCHANGED <<store, clock, today, uuids>>
    /\ Wrote(i, 0)

(* GET /auth/me *)
get_me(i) ==
    /\ Authenticated(i)
    /\ Respond(i, "get_me", 200, <<>>, {}, FALSE)
    /\ UNCHANGED <<store, clock, today, uuids>>
    /\ Wrote(i, 0)

(* POST /auth/logout *)
logout(i) ==
    /\ Authenticated(i)
    /\ users' = UpdateByUid(reqs[i].uid, [token |-> NoToken])
    /\ Respond(i, "logout", 200, <<>>, {}, FALSE)
    /\ UNCHANGED <<companies, resources, clock, today, uuids>>
    /\ Wrote(i, 1)

----------------------------------------------------------------------------
(* POST /companies *)

create_company_insert(i) ==
    /\ Authenticated(i)
    /\ IF Truthy(reqs[i].companyId)
       THEN /\ Respond(i, "create_company", 400, <<>>, {}, FALSE)
            /\ UNCHANGED <<companies, uuids>>
       ELSE /\ uuids.company <= MaxCompanies
            /\ companies' = companies \cup
                  {[companyId |-> uuids.company, ownerId |-> reqs[i].uid]}
            /\ uuids' = [uuids EXCEPT !.company = @ + 1]
            /\ Goto(i, "create_company", "update_user",
                    [companyId |-> uuids.company])
    /\ UNCHANGED <<users, resources, clock, today>>
    /\ Wrote(i, IF Truthy(reqs[i].companyId) THEN 0 ELSE 1)

create_company_update_user(i) ==
    /\ At(i, "create_company", "update_user")
    /\ users' = UpdateByUid(reqs[i].uid,
                           [companyId |-> reqs[i].d.companyId, role |-> "owner"])
    /\ Respond(i, "create_company", 200, reqs[i].d, {}, FALSE)
    /\ UNCHANGED <<companies, resources, clock, today, uuids>>
    /\ Wrote(i, 1)

----------------------------------------------------------------------------
(* Scoped filters of the resource handlers *)

(* mutant: the handler forgets the company guard *)
HasCompany_Unchecked(i) == TRUE

(* if not current_user.get("companyId"): ... *)
HasCompany(i) == Truthy(reqs[i].companyId)

(* mutant: the list query forgets the tenant scope *)
ProjectsOf_Unscoped(companyId) == projects

ProjectsOf(companyId) == {p \in projects : p.companyId = companyId}

(* mutant: the parent lookup filters on the id alone *)
FindProject_ById(id, companyId) == {p \in projects : p.projectId = id}

(* {"projectId": id, "companyId": companyId} *)
FindProject(id, companyId) ==
    {p \in projects : p.projectId = id /\ p.companyId = companyId}

(* {"projectId": id} *)
FindProjectById(id) == {p \in projects : p.projectId = id}

(* {"activityId": id, "companyId": companyId} *)
FindActivity(id, companyId) ==
    {a \in activities : a.activityId = id /\ a.companyId = companyId}

(* {"companyId": ..., "userId": ...} *)
RecordsOf(companyId, uid) ==
    {r \in timeRecords : r.companyId = companyId /\ r.userId = uid}

(* mutant: the record lookup filters on the id alone, as update_one does *)
FindRecord_ById(id, companyId, uid) == {r \in timeRecords : r.recordId = id}

(* {"recordId": id, "companyId": ..., "userId": ...} *)
FindRecord(id, companyId, uid) ==
    {r \in timeRecords : r.recordId = id /\ r.companyId = companyId
                         /\ r.userId = uid}

(* {"recordId": id} *)
FindRecordById(id) == {r \in timeRecords : r.recordId = id}

(* ids a client can send: every id handed out so far and one that *)
(* names nothing (the next, still unused, value of the counter)    *)
ProjectIdInputs == 1..uuids.project
ActivityIdInputs == 1..uuids.activity
RecordIdInputs == 1..uuids.record

(* projects, activities and time records created so far or about to be *)
Created ==
    (uuids.project - 1) + (uuids.activity - 1) + (uuids.record - 1)
    + InFlight("create_activity") + InFlight("create_time_record")

----------------------------------------------------------------------------
(* Projects *)

(* limit bounds the documents the model lets the handlers create *)
create_project(i, name, limit) ==
    /\ Authenticated(i)
    /\ IF ~HasCompany(i)
       THEN /\ Respond(i, "create_project", 400, <<>>, {}, FALSE)
            /\ UNCHANGED <<projects, uuids>>
       ELSE LET doc == [projectId |-> uuids.project,
                        companyId |-> reqs[i].companyId,
                        name |-> name, createdAt |-> today]
            IN  /\ Created < limit
                /\ projects' = projects \cup {doc}
                /\ uuids' = [uuids EXCEPT !.project = @ + 1]
                /\ Respond(i, "create_project", 200, <<>>, {doc}, TRUE)
    /\ UNCHANGED <<users, companies, activities, timeRecords, clock, today>>
    /\ Wrote(i, IF ~HasCompany(i) THEN 0 ELSE 1)

get_projects(i) ==
    /\ Authenticated(i)
    /\ IF ~HasCompany(i)
       THEN Respond(i, "get_projects", 200, <<>>, {}, FALSE)
       ELSE Respond(i, "get_projects", 200, <<>>,
                    ProjectsOf(reqs[i].companyId), TRUE)
    /\ UNCHANGED <<store, clock, today, uuids>>
    /\ Wrote(i, 0)

get_project(i, project_id) ==
    /\ Authenticated(i)
    /\ LET found == FindProject(project_id, reqs[i].companyId)
       IN  Respond(i, "get_project", IF found = {} THEN 404 ELSE 200,
                   [id |-> project_id], found, TRUE)
    /\ UNCHANGED <<store, clock, today, uuids>>
    /\ Wrote(i, 0)

update_project_find(i, project_id, name) ==
    /\ Authenticated(i)
    /\ IF FindProject(project_id, reqs[i].companyId) = {}
       THEN Respond(i, "update_project", 404, [id |-> project_id], {}, TRUE)
       ELSE Goto(i, "update_project",
                 IF name # None THEN "update" ELSE "refetch",
                 [id |-> project_id, name |-> name])
    /\ UNCHANGED <<store, clock, today, uuids>>
    /\ Wrote(i, 0)

update_project_update(i) ==
    /\ At(i, "update_project", "update")
    /\ projects' = {IF p.projectId = reqs[i].d.id
                    THEN [p EXCEPT !.name = reqs[i].d.name] ELSE p :
                    p \in projects}
    /\ Goto(i, "update_project", "refetch", reqs[i].d)
    /\ UNCHANGED <<users, companies, activities, timeRecords, clock, today, uuids>>
    /\ Wrote(i, 1)

(* building the response from a missing document raises: a 500 *)
update_project_refetch(i) ==
    /\ At(i, "update_project", "refetch")
    /\ LET found == FindProjectById(reqs[i].d.id)
       IN  Respond(i, "update_project", IF found = {} THEN 500 ELSE 200,
                   reqs[i].d, found, TRUE)
    /\ UNCHANGED <<store, clock, today, uuids>>
    /\ Wrote(i, 0)

delete_project(i, project_id) ==
    /\ Authenticated(i)
    /\ LET found == FindProject(project_id, reqs[i].companyId)
       IN  /\ projects' = projects \ found
           /\ Respond(i, "delete_project", IF found = {} THEN 404 ELSE 200,
                      [id |-> project_id], {}, TRUE)
    /\ UNCHANGED <<users, companies, activities, timeRecords, clock, today, uuids>>
    /\ Wrote(i, 1)

----------------------------------------------------------------------------
(* Activities *)

create_activity_find(i, projectId, limit) ==
    /\ Authenticated(i)
    /\ IF ~HasCompany(i)
       THEN Respond(i, "create_activity", 400, [projectId |-> projectId], {}, FALSE)
       ELSE IF FindProject(projectId, reqs[i].companyId) = {}
       THEN Respond(i, "create_activity", 404, [projectId |-> projectId], {}, TRUE)
       ELSE /\ Created < limit
            /\ Goto(i, "create_activity", "insert", [projectId |-> projectId])
    /\ UNCHANGED <<store, clock, today, uuids>>
    /\ Wrote(i, 0)

create_activity_insert(i) ==
    /\ At(i, "create_activity", "insert")
    /\ LET doc == [activityId |-> uuids.activity,
                   projectId |-> reqs[i].d.projectId,
                   companyId |-> reqs[i].companyId]
       IN  /\ activities' = activities \cup {doc}
           /\ uuids' = [uuids EXCEPT !.activity = @ + 1]
           /\ Respond(i, "create_activity", 200, reqs[i].d, {doc}, TRUE)
    /\ UNCHANGED <<users, companies, projects, timeRecords, clock, today>>
    /\ Wrote(i, 1)

get_activities(i, projectId) ==
    /\ Authenticated(i)
    /\ IF ~HasCompany(i)
       THEN Respond(i, "get_activities", 200, <<>>, {}, FALSE)
       ELSE Respond(i, "get_activities", 200, <<>>,
                    {a \in activities :
                        /\ a.companyId = reqs[i].companyId
                        /\ Truthy(projectId) => a.projectId = projectId},
                    TRUE)
    /\ UNCHANGED <<store, clock, today, uuids>>
    /\ Wrote(i, 0)

delete_activity(i, activity_id) ==
    /\ Authenticated(i)
    /\ LET found == FindActivity(activity_id, reqs[i].companyId)
       IN  /\ activities' = activities \ found
           /\ Respond(i, "delete_activity", IF found = {} THEN 404 ELSE 200,
                      [id |-> activity_id], {}, TRUE)
    /\ UNCHANGED <<users, companies, projects, timeRecords, clock, today, uuids>>
    /\ Wrote(i, 1)

----------------------------------------------------------------------------
(* Time records *)

create_time_record_find_project(i, projectId, activityId, durationMinutes, pomodoros, notes, limit) ==
    /\ Authenticated(i)
    /\ LET args == [projectId |-> projectId, activityId |-> activityId,
                    durationMinutes |-> durationMinutes, pomodoros |-> pomodoros,
                    notes |-> notes]
       IN  IF ~HasCompany(i)
           THEN Respond(i, "create_time_record", 400, args, {}, FALSE)
           ELSE IF FindProject(projectId, reqs[i].companyId) = {}
           THEN Respond(i, "create_time_record", 404, args, {}, TRUE)
           ELSE /\ Created < limit
                /\ Goto(i, "create_time_record",
                        IF Truthy(activityId) THEN "find_activity" ELSE "insert",
                        args)
    /\ UNCHANGED <<store, clock, today, uuids>>
    /\ Wrote(i, 0)

(* mutant: the record is stored before the activity is verified *)
create_time_record_find_activity_InsertFirst(i) ==
    /\ At(i, "create_time_record", "find_activity")
    /\ IF FindActivity(reqs[i].d.activityId, reqs[i].companyId) = {}
       THEN /\ timeRecords' = timeRecords \cup
                   {[recordId |-> uuids.record,
                     companyId |-> reqs[i].companyId,
                     userId |-> reqs[i].uid,
                     projectId |-> reqs[i].d.projectId,
                     activityId |-> reqs[i].d.activityId,
                     durationMinutes |-> reqs[i].d.durationMinutes,
                     pomodoros |-> reqs[i].d.pomodoros,
                     notes |-> IF Truthy(reqs[i].d.notes)
                               THEN reqs[i].d.notes ELSE EmptyStr,
                     createdAt |-> today, updatedAt |-> today]}
            /\ Respond(i, "create_time_record", 404, reqs[i].d, {}, TRUE)
            /\ Wrote(i, 1)
       ELSE /\ Goto(i, "create_time_record", "insert", reqs[i].d)
            /\ UNCHANGED timeRecords
            /\ Wrote(i, 0)
    /\ UNCHANGED <<users, companies, projects, activities, clock, today, uuids>>

create_time_record_find_activity(i) ==
    /\ At(i, "create_time_record", "find_activity")
    /\ IF FindActivity(reqs[i].d.activityId, reqs[i].companyId) = {}
       THEN Respond(i, "create_time_record", 404, reqs[i].d, {}, TRUE)
       ELSE Goto(i, "create_time_record", "insert", reqs[i].d)
    /\ UNCHANGED <<store, clock, today, uuids>>
    /\ Wrote(i, 0)

create_time_record_insert(i) ==
    /\ At(i, "create_time_record", "insert")
    /\ LET doc == [recordId |-> uuids.record,
                   companyId |-> reqs[i].companyId,
                   userId |-> reqs[i].uid,
                   projectId |-> reqs[i].d.projectId,
                   activityId |-> reqs[i].d.activityId,
                   durationMinutes |-> reqs[i].d.durationMinutes,
                   pomodoros |-> reqs[i].d.pomodoros,
                   notes |-> IF Truthy(reqs[i].d.notes)
                             THEN reqs[i].d.notes ELSE EmptyStr,
                   createdAt |-> today, updatedAt |-> today]
       IN  /\ timeRecords' = timeRecords \cup {doc}
           /\ uuids' = [uuids EXCEPT !.record = @ + 1]
           /\ Respond(i, "create_time_record", 200, reqs[i].d, {doc}, TRUE)
    /\ UNCHANGED <<users, companies, projects, activities, clock, today>>
    /\ Wrote(i, 1)

get_time_records(i, projectId, activityId) ==
    /\ Authenticated(i)
    /\ IF ~HasCompany(i)
       THEN Respond(i, "get_time_records", 200, <<>>, {}, FALSE)
       ELSE Respond(i, "get_time_records", 200, <<>>,
                    {r \in RecordsOf(reqs[i].companyId, reqs[i].uid) :
                        /\ Truthy(projectId) => r.projectId = projectId
                        /\ Truthy(activityId) => r.activityId = activityId},
                    TRUE)
    /\ UNCHANGED <<store, clock, today, uuids>>
    /\ Wrote(i, 0)

get_time_record(i, record_id) ==
    /\ Authenticated(i)
    /\ LET found == FindRecord(record_id, reqs[i].companyId, reqs[i].uid)
       IN  Respond(i, "get_time_record", IF found = {} THEN 404 ELSE 200,
                   [id |-> record_id], found, TRUE)
    /\ UNCHANGED <<store, clock, today, uuids>>
    /\ Wrote(i, 0)

update_time_record_find(i, record_id, durationMinutes, pomodoros, notes) ==
    /\ Authenticated(i)
    /\ IF FindRecord(record_id, reqs[i].companyId, reqs[i].uid) = {}
       THEN Respond(i, "update_time_record", 404, [id |-> record_id], {}, TRUE)
       ELSE Goto(i, "update_time_record", "update",
                 [id |-> record_id, durationMinutes |-> durationMinutes,
                  pomodoros |-> pomodoros, notes |-> notes])
    /\ UNCHANGED <<store, clock, today, uuids>>
    /\ Wrote(i, 0)

(* mutant: the update writes the null fields of the request too *)
update_time_record_update_Overwrite(i) ==
    /\ At(i, "update_time_record", "update")
    /\ LET d == reqs[i].d
       IN  timeRecords' =
             {IF r.recordId = d.id
              THEN [r EXCEPT
                      !.durationMinutes = d.durationMinutes,
                      !.pomodoros = d.pomodoros,
                      !.notes = d.notes,
                      !.updatedAt = today]
              ELSE r : r \in timeRecords}
    /\ Goto(i, "update_time_record", "refetch", reqs[i].d)
    /\ UNCHANGED <<users, companies, projects, activities, clock, today, uuids>>
    /\ Wrote(i, 1)

update_time_record_update(i) ==
    /\ At(i, "update_time_record", "update")
    /\ LET d == reqs[i].d
       IN  timeRecords' =
             {IF r.recordId = d.id
              THEN [r EXCEPT
                      !.durationMinutes =
                          IF d.durationMinutes # None THEN d.durationMinutes ELSE @,
                      !.pomodoros = IF d.pomodoros # None THEN d.pomodoros ELSE @,
                      !.notes = IF d.notes # None THEN d.notes ELSE @,
                      !.updatedAt = today]
              ELSE r : r \in timeRecords}
    /\ Goto(i, "update_time_record", "refetch", reqs[i].d)
    /\ UNCHANGED <<users, companies, projects, activities, clock, today, uuids>>
    /\ Wrote(i, 1)

update_time_record_refetch(i) ==
    /\ At(i, "update_time_record", "refetch")
    /\ LET found == FindRecordById(reqs[i].d.id)
       IN  Respond(i, "update_time_record", IF found = {} THEN 500 ELSE 200,
                   reqs[i].d, found, TRUE)
    /\ UNCHANGED <<store, clock, today, uuids>>
    /\ Wrote(i, 0)

delete_time_record(i, record_id) ==
    /\ Authenticated(i)
    /\ LET found == FindRecord(record_id, reqs[i].companyId, reqs[i].uid)
       IN  /\ timeRecords' = timeRecords \ found
           /\ Respond(i, "delete_time_record", IF found = {} THEN 404 ELSE 200,
                      [id |-> record_id], {}, TRUE)
    /\ UNCHANGED <<users, companies, projects, activities, clock, today, uuids>>
    /\ Wrote(i, 1)

----------------------------------------------------------------------------
(* Statistics *)

RECURSIVE SumPomodoros(_)
SumPomodoros(S) ==
    IF S = {} THEN 0
    ELSE LET r == CHOOSE x \in S : TRUE
         IN  r.pomodoros + SumPomodoros(S \ {r})

RECURSIVE SumMinutes(_)
SumMinutes(S) ==
    IF S = {} THEN 0
    ELSE LET r == CHOOSE x \in S : TRUE
         IN  r.durationMinutes + SumMinutes(S \ {r})

(* find() returns documents in insertion order; record ids are drawn  *)
(* from the counter at insertion, so that is ascending recordId.      *)
RECURSIVE NaturalOrder(_)
NaturalOrder(S) ==
    IF S = {} THEN <<>>
    ELSE LET r == CHOOSE x \in S : \A y \in S : x.recordId <= y.recordId
         IN  <<r>> \o NaturalOrder(S \ {r})

(* find(...).to_list(length): the first length documents in the order *)
(* of insertion, which is the order of their ids                      *)
to_list_records(S, length) ==
    {r \in S : Cardinality({x \in S : x.recordId < r.recordId}) < length}

to_list_projects(S, length) ==
    {p \in S : Cardinality({x \in S : x.projectId < p.projectId}) < length}

TodayFetch == 100
WeekFetch == 500
RecordsFetch == 1000
ProjectsFetch == 100

(* mutant: the week starts on Sunday *)
weekday_SundayFirst(day) == (day + 1) % 7

(* datetime.weekday(): Monday is 0; day 0 of the model is a Monday *)
weekday(day) == day % 7

SecondsPerMinute == 60
DaysPerWeek == 7

(* mutant: the query forgets the createdAt filter *)
get_today_stats_AllDays(i) ==
    /\ Authenticated(i)
    /\ LET records == to_list_records(
                          {r \in timeRecords :
                              /\ r.userId = reqs[i].uid
                              /\ r.companyId = reqs[i].companyId}, TodayFetch)
           total_pomodoros == SumPomodoros(records)
           total_minutes == SumMinutes(records)
       IN  Respond(i, "get_today_stats", 200,
                   [date |-> today,
                    pomodorosCompleted |-> total_pomodoros,
                    totalWorkTime |-> total_minutes * SecondsPerMinute,
                    totalMinutes |-> total_minutes,
                    recordsCount |-> Cardinality(records)],
                   {}, TRUE)
    /\ UNCHANGED <<store, clock, today, uuids>>
    /\ Wrote(i, 0)

get_today_stats(i) ==
    /\ Authenticated(i)
    /\ LET records == to_list_records(
                          {r \in timeRecords :
                              /\ r.userId = reqs[i].uid
                              /\ r.companyId = reqs[i].companyId
                              /\ r.createdAt = today}, TodayFetch)
           total_pomodoros == SumPomodoros(records)
           total_minutes == SumMinutes(records)
       IN  Respond(i, "get_today_stats", 200,
                   [date |-> today,
                    pomodorosCompleted |-> total_pomodoros,
                    totalWorkTime |-> total_minutes * SecondsPerMinute,
                    totalMinutes |-> total_minutes,
                    recordsCount |-> Cardinality(records)],
                   {}, TRUE)
    /\ UNCHANGED <<store, clock, today, uuids>>
    /\ Wrote(i, 0)

(* sum(d["pomodoros"] for d in daily_stats.values()) *)
RECURSIVE SumDailyPomodoros(_, _)
SumDailyPomodoros(daily_stats, D) ==
    IF D = {} THEN 0
    ELSE LET x == CHOOSE y \in D : TRUE
         IN  daily_stats[x].pomodoros + SumDailyPomodoros(daily_stats, D \ {x})

(* sum(d["totalTime"] for d in daily_stats.values()) *)
RECURSIVE SumDailyTime(_, _)
SumDailyTime(daily_stats, D) ==
    IF D = {} THEN 0
    ELSE LET x == CHOOSE y \in D : TRUE
         IN  daily_stats[x].totalTime + SumDailyTime(daily_stats, D \ {x})

get_week_stats(i) ==
    /\ Authenticated(i)
    /\ LET week_start == today - weekday(today)
           dates == [k \in 1..DaysPerWeek |-> week_start + (k - 1)]
           records == to_list_records(
                          {r \in timeRecords :
                              /\ r.userId = reqs[i].uid
                              /\ r.companyId = reqs[i].companyId}, WeekFetch)
           day_records(date) == {r \in records : r.createdAt = date}
           daily_stats == [date \in {dates[k] : k \in 1..DaysPerWeek} |->
                             [pomodoros |-> SumPomodoros(day_records(date)),
                              totalTime |-> SumMinutes(day_records(date))
                                            * SecondsPerMinute]]
       IN  Respond(i, "get_week_stats", 200,
                   [weekStart |-> dates[1],
                    weekEnd |-> dates[DaysPerWeek],
                    dailyStats |-> daily_stats,
                    totalPomodoros |-> SumDailyPomodoros(daily_stats,
                                                         DOMAIN daily_stats),
                    totalTime |-> SumDailyTime(daily_stats,
                                               DOMAIN daily_stats)],
                   {}, TRUE)
    /\ UNCHANGED <<store, clock, today, uuids>>
    /\ Wrote(i, 0)

get_project_stats_records(i) ==
    /\ Authenticated(i)
    /\ IF ~HasCompany(i)
       THEN Respond(i, "get_project_stats", 200, [stats |-> <<>>], {}, FALSE)
       ELSE Goto(i, "get_project_stats", "projects",
                 [records |-> NaturalOrder(to_list_records(
                                 RecordsOf(reqs[i].companyId, reqs[i].uid),
                                 RecordsFetch))])
    /\ UNCHANGED <<store, clock, today, uuids>>
    /\ Wrote(i, 0)

Desconocido == 0

(* mutant: each record replaces the project's totals *)
RECURSIVE ProjectStats_Overwrite(_, _, _)
ProjectStats_Overwrite(records, project_map, stats) ==
    IF records = <<>> THEN stats
    ELSE LET record == Head(records)
             pid == record.projectId
             known == {k \in 1..Len(stats) : stats[k].projectId = pid}
             named == {p \in project_map : p.projectId = pid}
             fresh == [projectId |-> pid,
                       projectName |-> IF named = {} THEN Desconocido
                                       ELSE (CHOOSE p \in named : TRUE).name,
                       totalTime |-> 0, totalMinutes |-> 0, pomodoros |-> 0]
             stats1 == IF known = {} THEN Append(stats, fresh) ELSE stats
             k == CHOOSE j \in 1..Len(stats1) : stats1[j].projectId = pid
         IN  ProjectStats_Overwrite(Tail(records), project_map,
                 [stats1 EXCEPT ![k].totalMinutes = record.durationMinutes,
                                ![k].totalTime = record.durationMinutes * SecondsPerMinute,
                                ![k].pomodoros = record.pomodoros])

(* the loop over records: stats keeps the order of first occurrence *)
RECURSIVE ProjectStats(_, _, _)
ProjectStats(records, project_map, stats) ==
    IF records = <<>> THEN stats
    ELSE LET record == Head(records)
             pid == record.projectId
             known == {k \in 1..Len(stats) : stats[k].projectId = pid}
             named == {p \in project_map : p.projectId = pid}
             fresh == [projectId |-> pid,
                       projectName |-> IF named = {} THEN Desconocido
                                       ELSE (CHOOSE p \in named : TRUE).name,
                       totalTime |-> 0, totalMinutes |-> 0, pomodoros |-> 0]
             stats1 == IF known = {} THEN Append(stats, fresh) ELSE stats
             k == CHOOSE j \in 1..Len(stats1) : stats1[j].projectId = pid
             minutes == stats1[k].totalMinutes + record.durationMinutes
         IN  ProjectStats(Tail(records), project_map,
                 [stats1 EXCEPT ![k].totalMinutes = minutes,
                                ![k].totalTime = minutes * SecondsPerMinute,
                                ![k].pomodoros = @ + record.pomodoros])

get_project_stats_projects(i) ==
    /\ At(i, "get_project_stats", "projects")
    /\ Respond(i, "get_project_stats", 200,
               [stats |-> ProjectStats(reqs[i].d.records,
                                       to_list_projects(
                                           ProjectsOf(reqs[i].companyId),
                                           ProjectsFetch),
                                       <<>>)],
               {}, TRUE)
    /\ UNCHANGED <<store, clock, today, uuids>>
    /\ Wrote(i, 0)

----------------------------------------------------------------------------
(* The resource routes, one request at a time *)

NextTenant ==
    \E i \in {1} :
        \/ \E e \in Emails, p \in RegisterPasswords, c \in {None, 1} :
              register_find(i, e, p, c, None)
        \/ register_insert_company(i)
        \/ register_insert_user(i)
        \/ \E cred \in Credentials : get_current_user(i, cred)
        \/ \E n \in ProjectNames : create_project(i, n, MaxDocuments)
        \/ get_projects(i)
        \/ \E id \in ProjectIdInputs : get_project(i, id)
        \/ \E id \in ProjectIdInputs, n \in NewNames : update_project_find(i, id, n)
        \/ update_project_update(i)
        \/ update_project_refetch(i)
        \/ \E id \in ProjectIdInputs : delete_project(i, id)
        \/ \E id \in ProjectIdInputs : create_activity_find(i, id, MaxDocuments)
        \/ create_activity_insert(i)
        \/ \E id \in {None} \cup ProjectIdInputs : get_activities(i, id)
        \/ \E id \in ActivityIdInputs : delete_activity(i, id)
        \/ \E pid \in ProjectIdInputs, aid \in {None, EmptyStr} \cup ActivityIdInputs,
              m \in DurationInputs, n \in PomodoroInputs :
              create_time_record_find_project(i, pid, aid, m, n, None, MaxDocuments)
        \/ create_time_record_find_activity(i)
        \/ create_time_record_insert(i)
        \/ \E pid \in {None} \cup ProjectIdInputs, aid \in {None} \cup ActivityIdInputs :
              get_time_records(i, pid, aid)
        \/ \E id \in RecordIdInputs : get_time_record(i, id)
        \/ \E id \in RecordIdInputs, m \in DurationUpdates :
              update_time_record_find(i, id, m, None, None)
        \/ update_time_record_update(i)
        \/ update_time_record_refetch(i)
        \/ \E id \in RecordIdInputs : delete_time_record(i, id)
        \/ get_today_stats(i)
        \/ get_week_stats(i)
        \/ get_project_stats_records(i)
        \/ get_project_stats_projects(i)

SpecTenant == Init /\ [][NextTenant]_vars

----------------------------------------------------------------------------
(* The authentication routes, one request at a time *)

NextAuth ==
    \E i \in {1} :
        \/ \E e \in Emails, p \in RegisterPasswords, c \in CompanyNames,
              f \in ClientUids : register_find(i, e, p, c, f)
        \/ register_insert_company(i)
        \/ register_insert_user(i)
        \/ \E e \in Emails, p \in LoginPasswords : login_find(i, e, p)
        \/ login_update(i)
        \/ \E cred \in Credentials : get_current_user(i, cred)
        \/ get_me(i)
        \/ logout(i)
        \/ create_company_insert(i)
        \/ create_company_update_user(i)

SpecAuth == Init /\ [][NextAuth]_vars

----------------------------------------------------------------------------
(* Every route that writes, one request at a time *)

(* clients present the tokens the server has stored *)
StoredCredentials ==
    {NoCred} \cup {[kind |-> "session", tok |-> users[k].token] :
                      k \in {j \in 1..Len(users) : users[j].token # NoToken}}

NextAll ==
    \E i \in {1} :
        \/ \E e \in {"a@x.com"}, p \in RegisterPasswords, c \in {None, 1} :
              register_find(i, e, p, c, None)
        \/ register_insert_company(i)
        \/ register_insert_user(i)
        \/ \E e \in {"a@x.com"}, p \in LoginPasswords : login_find(i, e, p)
        \/ login_update(i)
        \/ \E cred \in StoredCredentials : get_current_user(i, cred)
        \/ logout(i)
        \/ create_company_insert(i)
        \/ create_company_update_user(i)
        \/ \E n \in ProjectNames : create_project(i, n, MaxDocuments)
        \/ \E id \in ProjectIdInputs, n \in NewNames : update_project_find(i, id, n)
        \/ update_project_update(i)
        \/ update_project_refetch(i)
        \/ \E id \in ProjectIdInputs : delete_project(i, id)
        \/ \E id \in ProjectIdInputs : create_activity_find(i, id, MaxDocuments)
        \/ create_activity_insert(i)
        \/ \E id \in ActivityIdInputs : delete_activity(i, id)
        \/ \E pid \in ProjectIdInputs, aid \in {None} \cup ActivityIdInputs,
              m \in DurationInputs, n \in PomodoroInputs :
              create_time_record_find_project(i, pid, aid, m, n, None, MaxDocuments)
        \/ create_time_record_find_activity(i)
        \/ create_time_record_insert(i)
        \/ \E id \in RecordIdInputs, m \in DurationUpdates :
              update_time_record_find(i, id, m, None, None)
        \/ update_time_record_update(i)
        \/ update_time_record_refetch(i)
        \/ \E id \in RecordIdInputs : delete_time_record(i, id)

SpecAll == Init /\ [][NextAll]_vars

----------------------------------------------------------------------------
(* The authentication routes, two requests interleaved step by step; *)
(* clients present the tokens the server has stored.                 *)

NextRace ==
    \E i \in Slots :
        \/ \E e \in Emails, p \in RegisterPasswords, c \in {None, 1} :
              register_find(i, e, p, c, None)
        \/ register_insert_company(i)
        \/ register_insert_user(i)
        \/ \E e \in Emails, p \in LoginPasswords : login_find(i, e, p)
        \/ login_update(i)
        \/ \E cred \in StoredCredentials : get_current_user(i, cred)
        \/ get_me(i)
        \/ logout(i)
        \/ create_company_insert(i)
        \/ create_company_update_user(i)

SpecRace == Init /\ [][NextRace]_vars

----------------------------------------------------------------------------
(* Time passes: datetime.now(timezone.utc) reaches the next UTC day *)

DaysPerTick == 3

Tick ==
    /\ today + DaysPerTick <= MaxDay
    /\ today' = today + DaysPerTick
    /\ UNCHANGED <<store, reqs, clock, uuids, writes>>

StatsPomodoros == {2}

(* stats/week over the days of two weeks, one request at a time *)

NextWeek ==
    \/ Tick
    \/ \E i \in {1} :
        \/ \E e \in Emails, p \in RegisterPasswords, c \in {1} :
              register_find(i, e, p, c, None)
        \/ register_insert_company(i)
        \/ register_insert_user(i)
        \/ \E cred \in StoredCredentials : get_current_user(i, cred)
        \/ \E n \in ProjectNames : create_project(i, n, WeekDocuments)
        \/ \E pid \in ProjectIdInputs, m \in DurationInputs, n \in StatsPomodoros :
              create_time_record_find_project(i, pid, None, m, n, None, WeekDocuments)
        \/ create_time_record_insert(i)
        \/ get_week_stats(i)

SpecWeek == Init /\ [][NextWeek]_vars

(* The update routes, one request at a time; the date advances once, *)
(* when the user has two records.                                    *)

NextUpdate ==
    \/ today = 0 /\ Cardinality(timeRecords) > 1 /\ Tick
    \/ \E i \in {1} :
        \/ \E e \in {"a@x.com"}, p \in RegisterPasswords, c \in {1} :
              register_find(i, e, p, c, None)
        \/ register_insert_company(i)
        \/ register_insert_user(i)
        \/ \E cred \in StoredCredentials : get_current_user(i, cred)
        \/ \E n \in ProjectNames : create_project(i, n, MaxDocuments + 1)
        \/ \E pid \in ProjectIdInputs, m \in DurationInputs, n \in PomodoroInputs,
              t \in Notes \ {EmptyStr} :
              create_time_record_find_project(i, pid, None, m, n, t, MaxDocuments + 1)
        \/ create_time_record_insert(i)
        \/ \E id \in ProjectIdInputs, n \in NewNames : update_project_find(i, id, n)
        \/ update_project_update(i)
        \/ update_project_refetch(i)
        \/ \E id \in RecordIdInputs, m \in DurationUpdates, n \in PomodoroUpdates,
              t \in Notes :
              update_time_record_find(i, id, m, n, t)
        \/ update_time_record_update(i)
        \/ update_time_record_refetch(i)

SpecUpdate == Init /\ [][NextUpdate]_vars

(* stats/today for a user who logs many records, one request at a    *)
(* time.  The users register, every company gets its project, a      *)
(* second user logs a record and the date advances once while the    *)
(* store is small (SmallStore); then the first user registered logs  *)
(* records until the store holds TodayDocuments documents.           *)

SmallStore == Created < 4 /\ Cardinality(timeRecords) <= 1

NextToday ==
    \/ SmallStore /\ today = 0 /\ Tick
    \/ \E i \in {1} :
        \/ \E e \in Emails, p \in RegisterPasswords, c \in {1} :
              SmallStore /\ register_find(i, e, p, c, None)
        \/ register_insert_company(i)
        \/ register_insert_user(i)
        \/ \E cred \in StoredCredentials : get_current_user(i, cred)
        \/ \E n \in ProjectNames :
              create_project(i, n,
                  IF SmallStore /\ ProjectsOf(reqs[i].companyId) = {}
                  THEN TodayDocuments ELSE 0)
        \/ \E pid \in ProjectIdInputs, m \in DurationInputs,
              n \in StatsPomodoros :
              create_time_record_find_project(
                  i, pid, None, m, n, None,
                  IF reqs[i].who = 1
                     \/ (SmallStore
                         /\ RecordsOf(reqs[i].companyId, reqs[i].uid) = {})
                  THEN TodayDocuments ELSE 0)
        \/ create_time_record_insert(i)
        \/ get_today_stats(i)

SpecToday == Init /\ [][NextToday]_vars

----------------------------------------------------------------------------
(* stats/by-project for one user, one request at a time.  While the   *)
(* company has at most two projects the user logs up to                *)
(* MaxDocuments + 1 records and deletes projects; a company without    *)
(* records grows to ManyProjects projects, and then one record is      *)
(* logged.                                                             *)

FewProjects == uuids.project <= 3

Untouched ==
    /\ uuids.record = 1 /\ InFlight("create_time_record") = 0
    /\ Cardinality(projects) = uuids.project - 1

Logged == (uuids.record - 1) + InFlight("create_time_record")

NextByProject ==
    \E i \in {1} :
        \/ \E e \in {"a@x.com"}, p \in RegisterPasswords, c \in {None, 1} :
              register_find(i, e, p, c, None)
        \/ register_insert_company(i)
        \/ register_insert_user(i)
        \/ \E cred \in StoredCredentials : get_current_user(i, cred)
        \/ \E n \in ProjectNames :
              create_project(i, n,
                  IF uuids.project <= ManyProjects
                     /\ (uuids.project <= 2 \/ Untouched)
                  THEN Created + 1 ELSE 0)
        \/ \E id \in ProjectIdInputs : FewProjects /\ delete_project(i, id)
        \/ \E pid \in ProjectIdInputs, m \in DurationInputs, n \in StatsPomodoros :
              create_time_record_find_project(i, pid, None, m, n, None,
                  IF \/ FewProjects /\ Logged <= MaxDocuments
                     \/ uuids.project > ManyProjects /\ Logged = 0
                  THEN Created + 1 ELSE 0)
        \/ create_time_record_insert(i)
        \/ get_project_stats_records(i)
        \/ get_project_stats_projects(i)

SpecByProject == Init /\ [][NextByProject]_vars

----------------------------------------------------------------------------
(* Properties *)

Acts(i) == reqs'[i] # reqs[i]

IsDone(i) == reqs[i].pc = "done"

Answered(i, op, status) ==
    reqs[i].pc = "done" /\ reqs[i].op = op /\ reqs[i].status = status

(* C1 - cross-tenant isolation: every project, activity or time record  *)
(* that a response carries has the companyId of the caller the request  *)
(* was authenticated as, and every step that changes or removes such a  *)
(* document is a step of a request whose caller has the document's      *)
(* companyId; a caller without a company gets and changes none.         *)
ReturnedDocsAreOwnTenant ==
    \A i \in Slots :
        IsDone(i) => \A doc \in reqs[i].docs : doc.companyId = reqs[i].companyId

ChangedByOwnTenant(before, after) ==
    \A doc \in before \ after :
        \E i \in Slots : Acts(i) /\ reqs[i].companyId = doc.companyId

C1_CrossTenantIsolation ==
    /\ []ReturnedDocsAreOwnTenant
    /\ [][/\ ChangedByOwnTenant(projects, projects')
          /\ ChangedByOwnTenant(activities, activities')
          /\ ChangedByOwnTenant(timeRecords, timeRecords')]_vars

(* a caller of another company asked to delete a stored project by its *)
(* exact id and got 404                                                *)
C1_Witness ==
    \E i \in Slots :
        /\ Answered(i, "delete_project", 404)
        /\ reqs[i].companyId # None
        /\ \E p \in projects : p.projectId = reqs[i].d.id
                               /\ p.companyId # reqs[i].companyId

(* C2 - per-user isolation of time records: a response carries only    *)
(* records whose userId is the caller's uid; a step that changes or     *)
(* removes a record is a step of a request of the record's user; and    *)
(* read-one, update and delete of a stored record of another user       *)
(* answer 404.                                                          *)
RecordOps == {"get_time_records", "get_time_record", "update_time_record",
              "delete_time_record", "create_time_record"}

ReturnedRecordsAreOwn ==
    \A i \in Slots :
        (IsDone(i) /\ reqs[i].op \in RecordOps)
            => \A r \in reqs[i].docs : r.userId = reqs[i].uid

RecordChangedByOwner ==
    \A r \in timeRecords \ timeRecords' :
        \E i \in Slots : Acts(i) /\ reqs[i].uid = r.userId

OthersRecordIsNotFound ==
    \A i \in Slots :
        (/\ Acts(i)
         /\ reqs'[i].pc = "done"
         /\ reqs'[i].op \in {"get_time_record", "update_time_record",
                             "delete_time_record"}
         /\ \E r \in timeRecords : r.recordId = reqs'[i].d.id
                                   /\ r.userId # reqs'[i].uid)
            => reqs'[i].status = 404

C2_PerUserIsolation ==
    /\ []ReturnedRecordsAreOwn
    /\ [][RecordChangedByOwner /\ OthersRecordIsNotFound]_vars

(* another user asked for a stored record by its exact id and got 404 *)
C2_Witness ==
    \E i \in Slots :
        /\ Answered(i, "update_time_record", 404)
        /\ \E r \in timeRecords : r.recordId = reqs[i].d.id
                                  /\ r.userId # reqs[i].uid

(* C3 - single active session: the step that completes a successful     *)
(* login stores the fresh token in the document of the user who logged  *)
(* in, and the token that user held before resolves to no user after    *)
(* it.                                                                  *)
C3_SingleActiveSession ==
    [][\A i \in Slots :
          (At(i, "login", "update") /\ reqs'[i].pc = "done")
              => \A k \in {reqs[i].who} : \A old \in {users[k].token} :
                    /\ users'[k].token = reqs[i].d.token
                    /\ old # NoToken
                         => \A j \in 1..Len(users') : users'[j].token # old]_vars

(* C4 - logout invalidates the session: the step that completes a      *)
(* logout leaves the caller's stored token null, and the credential    *)
(* the logout was authenticated with no longer resolves to a user.     *)
C4_LogoutInvalidates ==
    [][\A i \in Slots :
          (Authenticated(i) /\ reqs'[i].pc = "done" /\ reqs'[i].op = "logout")
              => \A k \in {reqs[i].who} : \A cred \in {reqs[i].cred} :
                    /\ users'[k].token = NoToken
                    /\ ResolveUser(cred)' = 0]_vars

(* C5 - a login whose e-mail and password hash match no stored user    *)
(* answers 401 in that step and leaves users, hence every stored token *)
(* and every valid session, unchanged.                                 *)
C5_FailedLoginKeepsTokens ==
    [][\A i \in Slots :
          (/\ Free(i) /\ Acts(i) /\ reqs'[i].op = "login"
           /\ \A k \in 1..Len(users) :
                 ~(/\ users[k].email = reqs'[i].d.email
                   /\ users[k].password = sha256hex(reqs'[i].d.password)))
              => /\ reqs'[i].pc = "done"
                 /\ reqs'[i].status = 401
                 /\ users' = users]_vars

(* a wrong password for a registered e-mail was refused while that *)
(* user holds a token                                              *)
C5_Witness ==
    \E i \in Slots :
        /\ Answered(i, "login", 401)
        /\ \E k \in 1..Len(users) : /\ users[k].email = reqs[i].d.email
                                    /\ users[k].token # NoToken

(* C6 - a register whose e-mail belongs to a stored user answers 400    *)
(* (the Conflict of the specification) in that step, which ends the     *)
(* request, and inserts no user and no company and changes no user.     *)
C6_DuplicateEmailRejected ==
    [][\A i \in Slots :
          (/\ Free(i) /\ Acts(i) /\ reqs'[i].op = "register"
           /\ \E k \in 1..Len(users) : users[k].email = reqs'[i].d.email)
              => /\ reqs'[i].pc = "done"
                 /\ reqs'[i].status = 400
                 /\ users' = users
                 /\ companies' = companies]_vars

(* a register that carried a companyName was refused for its e-mail *)
C6_Witness ==
    \E i \in Slots :
        /\ Answered(i, "register", 400)
        /\ Truthy(reqs[i].d.companyName)
        /\ \E k \in 1..Len(users) : users[k].email = reqs[i].d.email

(* C7 - e-mail uniqueness: no two user documents have the same e-mail. *)
C7_EmailUnique ==
    \A j, k \in 1..Len(users) : j # k => users[j].email # users[k].email

(* C8 - register outcome.  Absent is the set of companyName values    *)
(* that count as no companyName.                                       *)
RegisterOutcome(Absent) ==
    \A i \in Slots :
        /\ (At(i, "register", "insert_user") /\ reqs'[i].pc = "done")
              => /\ Len(users') = Len(users) + 1
                 /\ reqs'[i].status = 200
                 /\ \A u \in {users'[Len(users')]} :
                       IF reqs[i].d.companyName \notin Absent
                       THEN /\ u.role = "owner"
                            /\ u.companyId # None
                            /\ \E c \in companies' : /\ c.companyId = u.companyId
                                                     /\ c.ownerId = u.uid
                       ELSE /\ u.companyId = None
                            /\ u.role = "user"
        /\ (Acts(i) /\ reqs'[i].op = "register"
                    /\ reqs'[i].d.companyName \in Absent)
              => companies' = companies

(* C8 as amended: a successful register with a non-empty companyName   *)
(* stores an owner whose companyId names a stored company owned by the *)
(* user's uid; one without a companyName, or with an empty one, stores *)
(* a user with companyId null and role user, and no step of it inserts *)
(* a company.                                                          *)
C8_RegisterOutcome == [][RegisterOutcome({None, EmptyStr})]_vars

(* C8 as stated: the same with every non-null companyName. *)
C8_AsStated == [][RegisterOutcome({None})]_vars

C8_Witness ==
    \E i \in Slots :
        /\ Answered(i, "register", 200)
        /\ Truthy(reqs[i].d.companyName)
        /\ users[reqs[i].who].role = "owner"
        /\ \E c \in companies : c.companyId = users[reqs[i].who].companyId

(* C9 - dangling or foreign parents.  Absent is the set of activityId  *)
(* values that count as no activityId.                                 *)
Refused(i) ==
    /\ reqs'[i].pc = "done"
    /\ reqs'[i].status = IF reqs'[i].companyId = None THEN 400 ELSE 404

NoOwnProject(i, id) ==
    \A p \in projects : ~(p.projectId = id /\ p.companyId = reqs[i].companyId)

NoOwnActivity(i, id) ==
    \A a \in activities : ~(a.activityId = id /\ a.companyId = reqs'[i].companyId)

ForeignParentRefused(Absent) ==
    \A i \in Slots :
        /\ (/\ Authenticated(i) /\ Acts(i)
            /\ reqs'[i].op = "create_activity"
            /\ NoOwnProject(i, reqs'[i].d.projectId))
              => Refused(i) /\ activities' = activities
        /\ (/\ Authenticated(i) /\ Acts(i)
            /\ reqs'[i].op = "create_time_record"
            /\ NoOwnProject(i, reqs'[i].d.projectId))
              => Refused(i) /\ timeRecords' = timeRecords
        /\ (/\ Acts(i)
            /\ reqs'[i].op = "create_time_record"
            /\ reqs'[i].d.activityId \notin Absent
            /\ NoOwnActivity(i, reqs'[i].d.activityId))
              => /\ timeRecords' = timeRecords
                 /\ Refused(i) \/ reqs'[i].pc = "find_activity"

CreateOps == {"create_project", "create_activity", "create_time_record"}
ListOps == {"get_projects", "get_activities", "get_time_records",
            "get_project_stats"}
ByIdOps == {"get_project", "update_project", "delete_project",
            "delete_activity", "get_time_record", "update_time_record",
            "delete_time_record"}
TotalsOps == {"get_today_stats", "get_week_stats"}
GuardedOps == CreateOps \cup ListOps \cup ByIdOps \cup TotalsOps

AnsweredWithoutCompany(i) ==
    IsDone(i) /\ reqs[i].op \in GuardedOps /\ reqs[i].companyId = None

(* C10 as stated: every such handler answers a caller without a        *)
(* company with 400 and has touched no resource collection.            *)
C10_AsStated ==
    \A i \in Slots :
        AnsweredWithoutCompany(i) => reqs[i].status = 400 /\ ~reqs[i].looked

(* C10 as amended: for a caller without a company the three create     *)
(* handlers answer 400 before any lookup; the list handlers and        *)
(* stats/by-project answer 200 with an empty list and no lookup;       *)
(* read-one, update and delete look the id up and answer 404;          *)
(* stats/today and stats/week look up and answer 200; none returns a   *)
(* document.                                                           *)
C10_TenantGuard ==
    \A i \in Slots :
        AnsweredWithoutCompany(i) =>
            /\ reqs[i].docs = {}
            /\ reqs[i].op \in CreateOps => reqs[i].status = 400 /\ ~reqs[i].looked
            /\ reqs[i].op \in ListOps => reqs[i].status = 200 /\ ~reqs[i].looked
            /\ reqs[i].op \in ByIdOps => reqs[i].status = 404 /\ reqs[i].looked
            /\ reqs[i].op \in TotalsOps => reqs[i].status = 200 /\ reqs[i].looked

(* a caller without a company was refused the creation of a project *)
(* with 400 before any lookup                                       *)
C10_Witness ==
    \E i \in Slots :
        /\ Answered(i, "create_project", 400)
        /\ reqs[i].companyId = None
        /\ ~reqs[i].looked

(* C11 - stats/week: the response has exactly the 7 consecutive days   *)
(* from the Monday on or before the current day to the Sunday after it  *)
(* as keys of dailyStats, weekStart and weekEnd are that Monday and     *)
(* Sunday, a day on which the caller has no record has pomodoros 0 and  *)
(* totalTime 0, and totalPomodoros and totalTime are the sums of the 7  *)
(* per-day values.                                                      *)
C11_WeekShape ==
    [][\A i \in Slots :
          (Authenticated(i) /\ reqs'[i].pc = "done"
                            /\ reqs'[i].op = "get_week_stats")
              => LET d == reqs'[i].d
                     ds == d.dailyStats
                     monday == CHOOSE m \in (today - 6)..today : m % 7 = 0
                     Own(day) == {r \in timeRecords :
                                     /\ r.userId = reqs[i].uid
                                     /\ r.companyId = reqs[i].companyId
                                     /\ r.createdAt = day}
                 IN  /\ reqs'[i].status = 200
                     /\ DOMAIN ds = monday..(monday + 6)
                     /\ Cardinality(DOMAIN ds) = 7
                     /\ d.weekStart = monday
                     /\ d.weekEnd = monday + 6
                     /\ \A day \in DOMAIN ds :
                           Own(day) = {} => /\ ds[day].pomodoros = 0
                                            /\ ds[day].totalTime = 0
                     /\ d.totalPomodoros =
                           ds[monday].pomodoros + ds[monday + 1].pomodoros
                           + ds[monday + 2].pomodoros + ds[monday + 3].pomodoros
                           + ds[monday + 4].pomodoros + ds[monday + 5].pomodoros
                           + ds[monday + 6].pomodoros
                     /\ d.totalTime =
                           ds[monday].totalTime + ds[monday + 1].totalTime
                           + ds[monday + 2].totalTime + ds[monday + 3].totalTime
                           + ds[monday + 4].totalTime + ds[monday + 5].totalTime
                           + ds[monday + 6].totalTime]_vars

(* stats/week answered in the second week for a caller with a record in *)
(* each week: the totals count the second week's record only            *)
C11_Witness ==
    \E i \in Slots :
        /\ Answered(i, "get_week_stats", 200)
        /\ reqs[i].d.weekStart = 7
        /\ reqs[i].d.totalPomodoros = 2
        /\ \E r \in timeRecords : r.userId = reqs[i].uid /\ r.createdAt < 7
        /\ \E r \in timeRecords : r.userId = reqs[i].uid /\ r.createdAt >= 7

(* C12 - stats/today.  Matching is the set of the caller's records of *)
(* the current day; Weigh adds up a field of a set of records value   *)
(* by value.                                                          *)
RECURSIVE Weigh(_, _, _)
Weigh(S, f, V) ==
    IF V = {} THEN 0
    ELSE LET v == CHOOSE x \in V : TRUE
         IN  v * Cardinality({r \in S : r[f] = v}) + Weigh(S, f, V \ {v})

FieldSum(S, f) == Weigh(S, f, {r[f] : r \in S})

Matching(i) ==
    {r \in timeRecords : /\ r.userId = reqs[i].uid
                         /\ r.companyId = reqs[i].companyId
                         /\ r.createdAt = today}

AnswersToday(i) ==
    Authenticated(i) /\ reqs'[i].pc = "done" /\ reqs'[i].op = "get_today_stats"

TodayReduces(i, S) ==
    /\ reqs'[i].status = 200
    /\ reqs'[i].d.recordsCount = Cardinality(S)
    /\ reqs'[i].d.pomodorosCompleted = FieldSum(S, "pomodoros")
    /\ reqs'[i].d.totalWorkTime = 60 * FieldSum(S, "durationMinutes")

(* C12 as stated: stats/today answers 200 with the number of the       *)
(* caller's records of the current day, the sum of their pomodoros and *)
(* 60 times the sum of their durationMinutes, however many they are.   *)
C12_AsStated ==
    [][\A i \in Slots : AnswersToday(i) => TodayReduces(i, Matching(i))]_vars

(* C12 with the fetch limit: stats/today answers 200 and reduces the   *)
(* caller's records of the current day that were stored first, at most *)
(* 100 of them: all of them when they are at most 100 (zeros when      *)
(* there is none), the first 100 otherwise.                            *)
C12_TodayReduction ==
    [][\A i \in Slots :
          AnswersToday(i) =>
              TodayReduces(i, {r \in Matching(i) :
                                 Cardinality({x \in Matching(i) :
                                     x.recordId < r.recordId}) < 100})]_vars

(* stats/today answered 100 records for a caller who has 101 of today *)
(* and one of an earlier day                                          *)
C12_Witness ==
    \E i \in Slots :
        /\ Answered(i, "get_today_stats", 200)
        /\ reqs[i].d.recordsCount = 100
        /\ Cardinality(Matching(i)) = 101
        /\ \E r \in timeRecords : r.userId = reqs[i].uid /\ r.createdAt < today

(* C13 - no partial mutation, as stated: no request performs more than *)
(* one insert, update or delete, and a request answered 400, 401 or    *)
(* 404 has changed no collection.                                      *)
ErrorStatuses == {400, 401, 404}

AnswersError(i) ==
    Acts(i) /\ reqs'[i].pc = "done" /\ reqs'[i].status \in ErrorStatuses

ErrorsLeaveStore ==
    \A i \in Slots :
        AnswersError(i) =>
            /\ store' = store
            /\ Free(i) \/ writes[i] = 0

C13_AsStated ==
    [][ErrorsLeaveStore /\ \A i \in Slots : writes'[i] <= 1]_vars

(* C13 - no partial mutation, amended: register with a company name and *)
(* create_company perform two store operations, every other request at  *)
(* most one; the step that answers 400, 401 or 404 changes no collection *)
(* and no earlier step of that request performed a store operation.     *)
TwoWrites == {"register", "create_company"}

C13_NoPartialMutation ==
    [][/\ ErrorsLeaveStore
       /\ \A i \in Slots :
             writes'[i] <= IF reqs'[i].op \in TwoWrites THEN 2 ELSE 1]_vars

(* a 404 of create_time_record's activity check next to a company that *)
(* a completed register with a company name has inserted               *)
C13_Witness ==
    /\ Answered(1, "create_time_record", 404)
    /\ Truthy(reqs[1].d.activityId)
    /\ FindProject(reqs[1].d.projectId, reqs[1].companyId) # {}
    /\ timeRecords = {}
    /\ writes[1] = 0
    /\ companies # {}

(* C14 - activity referential invariant: each stored activity's       *)
(* projectId names a stored project whose companyId equals the         *)
(* activity's companyId.                                               *)
C14_ActivityReferences ==
    \A a \in activities :
        \E p \in projects :
            p.projectId = a.projectId /\ p.companyId = a.companyId

(* C15 - partial update frame: the update step of update_time_record   *)
(* overwrites, in the record named by the request, durationMinutes,    *)
(* pomodoros and notes where the request's value is not null, sets     *)
(* updatedAt to the current date and keeps recordId, userId,           *)
(* companyId, projectId, activityId and createdAt; the update step of  *)
(* update_project overwrites name and keeps projectId, companyId and   *)
(* createdAt, and is taken only when a name is supplied; every other   *)
(* document is left as it was, and the other steps of the two          *)
(* requests change nothing.                                            *)
Supplied(new, old) == IF new # None THEN new ELSE old

RecordUpdated(old, d, now) ==
    [recordId |-> old.recordId, userId |-> old.userId,
     companyId |-> old.companyId, projectId |-> old.projectId,
     activityId |-> old.activityId, createdAt |-> old.createdAt,
     durationMinutes |-> Supplied(d.durationMinutes, old.durationMinutes),
     pomodoros |-> Supplied(d.pomodoros, old.pomodoros),
     notes |-> Supplied(d.notes, old.notes),
     updatedAt |-> now]

ProjectUpdated(old, d) ==
    [projectId |-> old.projectId, companyId |-> old.companyId,
     createdAt |-> old.createdAt, name |-> d.name]

UpdateFrame(i) ==
    /\ reqs[i].op = "update_time_record" /\ reqs[i].pc = "update" =>
          /\ timeRecords' =
                {r \in timeRecords : r.recordId # reqs[i].d.id}
                \cup {RecordUpdated(r, reqs[i].d, today) :
                         r \in {x \in timeRecords : x.recordId = reqs[i].d.id}}
          /\ Cardinality(timeRecords') = Cardinality(timeRecords)
          /\ UNCHANGED <<users, companies, projects, activities>>
    /\ reqs[i].op = "update_project" /\ reqs[i].pc = "update" =>
          /\ reqs[i].d.name # None
          /\ projects' =
                {p \in projects : p.projectId # reqs[i].d.id}
                \cup {ProjectUpdated(p, reqs[i].d) :
                         p \in {x \in projects : x.projectId = reqs[i].d.id}}
          /\ Cardinality(projects') = Cardinality(projects)
          /\ UNCHANGED <<users, companies, activities, timeRecords>>
    /\ reqs'[i].op \in {"update_time_record", "update_project"}
       /\ reqs[i].pc # "update" => store' = store

C15_PartialUpdateFrame ==
    [][\A i \in Slots : Acts(i) => UpdateFrame(i)]_vars

(* an answered update of the duration alone, on a later day: the record *)
(* has the new duration, its notes and pomodoros as created, a newer    *)
(* updatedAt, and the caller's other record is as created               *)
C15_Witness ==
    /\ Answered(1, "update_time_record", 200)
    /\ reqs[1].d.durationMinutes = 50
    /\ reqs[1].d.pomodoros = None
    /\ reqs[1].d.notes = None
    /\ \E r \in timeRecords :
          /\ r.recordId = reqs[1].d.id
          /\ r.durationMinutes = 50
          /\ r.notes = 7
          /\ r.updatedAt > r.createdAt
    /\ \E r \in timeRecords :
          /\ r.recordId # reqs[1].d.id
          /\ r.userId = reqs[1].uid
          /\ r.updatedAt = r.createdAt
    /\ \E p \in projects : p.name = 2

(* C16 - stats/by-project, as stated: the answer has one element per   *)
(* distinct projectId among the caller's records and no other, in the  *)
(* order in which the projectIds first occur among those records;      *)
(* totalMinutes and pomodoros are the sums over the caller's records   *)
(* of that project, totalTime is 60 times totalMinutes, projectName is *)
(* the name of the project of the caller's company with that id and    *)
(* the placeholder when there is none.                                 *)
AnswersByProject(i) ==
    /\ Acts(i)
    /\ reqs'[i].pc = "done"
    /\ reqs'[i].op = "get_project_stats"

FirstOccurrence(R, pid) ==
    Min({r.recordId : r \in {x \in R : x.projectId = pid}})

ByProjectReduces(st, R, P) ==
    /\ Len(st) = Cardinality({r.projectId : r \in R})
    /\ {st[k].projectId : k \in 1..Len(st)} = {r.projectId : r \in R}
    /\ \A j, k \in 1..Len(st) :
          j < k => FirstOccurrence(R, st[j].projectId)
                     < FirstOccurrence(R, st[k].projectId)
    /\ \A k \in 1..Len(st) :
          /\ st[k].totalMinutes =
                FieldSum({r \in R : r.projectId = st[k].projectId},
                         "durationMinutes")
          /\ st[k].pomodoros =
                FieldSum({r \in R : r.projectId = st[k].projectId}, "pomodoros")
          /\ st[k].totalTime = 60 * st[k].totalMinutes
          /\ IF \E p \in P : p.projectId = st[k].projectId
             THEN \E p \in P : /\ p.projectId = st[k].projectId
                                /\ st[k].projectName = p.name
             ELSE st[k].projectName = Desconocido

CallersRecords(i) ==
    {r \in timeRecords : r.userId = reqs[i].uid /\ r.companyId = reqs[i].companyId}

CallersProjects(i) ==
    {p \in projects : p.companyId = reqs[i].companyId}

C17_TokenBinding ==
    [][\A i \in Slots :
          (At(i, "login", "update") /\ reqs'[i].pc = "done"
           /\ reqs'[i].status = 200)
              => \A j \in 1..Len(users') :
                    /\ users'[j].token = reqs'[i].d.token
                          <=> users'[j].email = reqs'[i].d.email
                    /\ users[j].email # reqs'[i].d.email
                          => users'[j].token = users[j].token]_vars

(* C18 - no orphan company: no two stored companies have the same      *)
(* ownerId, and when no request is in flight the owner of every stored *)
(* company has that company's id as companyId.                         *)
Quiescent == \A i \in Slots : Free(i)

C18_OneCompanyPerOwner ==
    /\ \A c1, c2 \in companies : c1.ownerId = c2.ownerId => c1 = c2
    /\ Quiescent =>
          \A c \in companies :
              \A k \in 1..Len(users) :
                  users[k].uid = c.ownerId => users[k].companyId = c.companyId

(* C19 - a logout invalidates only the session it was authenticated    *)
(* with: the step of a logout request changes a user's stored token    *)
(* only if that token is the one the request presented, so a token     *)
(* issued by a login in the meantime stays stored.                     *)
C19_LogoutOwnSession ==
    [][\A i \in Slots :
          (Authenticated(i) /\ reqs'[i].pc = "done" /\ reqs'[i].op = "logout")
              => \A k \in 1..Len(users) :
                    users'[k].token # users[k].token
                        => /\ reqs[i].cred.kind = "session"
                           /\ users[k].token = reqs[i].cred.tok]_vars

====
